---- MODULE Spec2Model ----
(***************************************************************************)
(* A model of the STL viewer for vector displays (src/stl.ino) and of its  *)
(* SVG tester (src/unnamed/part_000).                                      *)
(*                                                                         *)
(* A 32-bit machine word (int32_t / uint32_t / fixed_t) is modelled by the *)
(* integer in -2^31 .. 2^31-1 that has the same two's-complement bit       *)
(* pattern; unsigned operations are defined on that representation.  No    *)
(* intermediate value of any operator leaves that range.                   *)
(*                                                                         *)
(* A text is a sequence of one-character strings; the terminating NUL of a *)
(* C string is the position just after the last element.                   *)
(***************************************************************************)
EXTENDS Integers, Sequences, FiniteSets, TLC

(***************************************************************************)
(* 32-bit words                                                            *)
(***************************************************************************)
MaxInt32 == 2147483647
MinInt32 == (-MaxInt32) - 1

\* a + b modulo 2^32 (uint32_t and, on the targets, int32_t addition)
Add32(a, b) ==
    IF a >= 0 /\ b >= 0 /\ a > MaxInt32 - b
      THEN (a + MinInt32) + (b + MinInt32)
    ELSE IF a < 0 /\ b < 0 /\ a < MinInt32 - b
      THEN (a - MinInt32) + (b - MinInt32)
    ELSE a + b

\* -a modulo 2^32
Neg32(a) == IF a = MinInt32 THEN MinInt32 ELSE -a

\* a - b modulo 2^32
Sub32(a, b) == Add32(a, Neg32(b))

\* unsigned a < b
ULt(a, b) == IF (a >= 0) = (b >= 0) THEN a < b ELSE a >= 0

\* a << 1, a << 8 (of a value below 2^24), a << 16
Shl1(a) == Add32(a, a)
Shl8(a) == IF a >= 8388608 THEN (a - 16777216) * 256 ELSE a * 256
Shl16(a) ==
    LET lo == a % 65536
    IN  IF lo >= 32768 THEN (lo - 65536) * 65536 ELSE lo * 65536

\* unsigned a >> 1, a >> 16
Lsr1(a) == IF a >= 0 THEN a \div 2 ELSE (a \div 2) - MinInt32
Lsr16(a) == IF a >= 0 THEN a \div 65536 ELSE (a \div 65536) + 65536

\* bitwise or of two values in 0 .. 2^16-1
RECURSIVE Or16(_, _)
Or16(x, y) ==
    IF x = 0 THEN y
    ELSE IF y = 0 THEN x
    ELSE (IF x % 2 = 1 \/ y % 2 = 1 THEN 1 ELSE 0)
         + 2 * Or16(x \div 2, y \div 2)

\* a | b
Or32(a, b) ==
    LET hi == Or16(Lsr16(a), Lsr16(b))
        lo == Or16(a % 65536, b % 65536)
    IN  (IF hi >= 32768 THEN hi - 65536 ELSE hi) * 65536 + lo

\* a * 10, modulo 2^32
Mul10(a) ==
    LET x2 == Shl1(a)
        x8 == Shl1(Shl1(x2))
    IN  Add32(x8, x2)

\* unsigned a / b for b # 0
RECURSIVE UDivSmall(_, _)
UDivSmall(a, b) == IF ULt(a, b) THEN 0 ELSE 1 + UDivSmall(Sub32(a, b), b)

UDiv(a, b) ==
    IF a >= 0 THEN (IF b < 0 THEN 0 ELSE a \div b)
    ELSE IF b < 0 \/ b >= 1073741824 THEN UDivSmall(a, b)
    ELSE LET h  == Lsr1(a)
             r  == 2 * (h % b) + (a % 2)
         IN  Add32(Shl1(h \div b), r \div b)

(***************************************************************************)
(* The fixed-point kernel                                                  *)
(***************************************************************************)
addfix(a, b) == Add32(a, b)

subfix(a, b) == Sub32(a, b)

\* the alignment loop of divfix with a signed comparison
RECURSIVE divfix_align_signed(_)
divfix_align_signed(st) ==
    IF ~(st.divider < st.remainder)
      THEN [st EXCEPT !.hang = FALSE]
    ELSE IF Shl1(st.divider) = st.divider /\ Shl1(st.bit) = st.bit
      THEN [st EXCEPT !.hang = TRUE]
    ELSE divfix_align_signed([st EXCEPT !.divider = Shl1(st.divider),
                                        !.bit = Shl1(st.bit)])

\* the alignment loop of divfix, on st = [remainder, divider, bit, quotient]:
\* while (divider < remainder) { divider <<= 1; bit <<= 1; }
\* A pass that changes neither divider nor bit while the condition holds
\* repeats for ever: hang.
RECURSIVE divfix_align(_)
divfix_align(st) ==
    IF ~ULt(st.divider, st.remainder)
      THEN [st EXCEPT !.hang = FALSE]
    ELSE IF Shl1(st.divider) = st.divider /\ Shl1(st.bit) = st.bit
      THEN [st EXCEPT !.hang = TRUE]
    ELSE divfix_align([st EXCEPT !.divider = Shl1(st.divider),
                                 !.bit = Shl1(st.bit)])

\* divfix without its step for a divider with the top bit set
divfix_top_skipped(st) == st

\* if (divider & 0x80000000) { ... } of divfix
divfix_top(st) ==
    IF st.divider >= 0 THEN st
    ELSE LET sub == ~ULt(st.remainder, st.divider)
         IN  [st EXCEPT
                !.quotient = IF sub THEN Or32(st.quotient, st.bit) ELSE @,
                !.remainder = IF sub THEN Sub32(st.remainder, st.divider) ELSE @,
                !.divider = Lsr1(st.divider),
                !.bit = Lsr1(st.bit)]

\* the loop while (bit && remainder) of divfix
RECURSIVE divfix_loop(_)
divfix_loop(st) ==
    IF st.bit = 0 \/ st.remainder = 0 THEN st
    ELSE LET sub == ~ULt(st.remainder, st.divider)
             r   == IF sub THEN Sub32(st.remainder, st.divider)
                    ELSE st.remainder
         IN  divfix_loop([st EXCEPT
                !.quotient = IF sub THEN Or32(st.quotient, st.bit) ELSE @,
                !.remainder = Shl1(r),
                !.bit = Lsr1(st.bit)])

\* divfix(a, b): [hang |-> the alignment loop never exits, v |-> the result]
divfix(a, b) ==
    LET st0 == [remainder |-> IF a >= 0 THEN a ELSE Neg32(a),
                divider   |-> IF b >= 0 THEN b ELSE Neg32(b),
                quotient  |-> 0,
                bit       |-> 65536,
                hang      |-> FALSE]
        al == divfix_align(st0)
        result == divfix_loop(divfix_top(al)).quotient
    IN  IF al.hang THEN [hang |-> TRUE, v |-> 0]
        ELSE [hang |-> FALSE,
              v |-> IF (a < 0) # (b < 0) THEN Neg32(result) ELSE result]

\* (a >= 0) ? a : (-a) overflows for a = -2^31, which is undefined.  The build
\* either keeps remainder = 2^31, as divfix above, or relies on remainder
\* being at most 2^31 - 1 and drops the comparison remainder >= divider of the
\* step for a divider with the top bit set.
divfix_top_assumed(st) ==
    IF st.divider >= 0 THEN st
    ELSE [st EXCEPT !.divider = Lsr1(st.divider), !.bit = Lsr1(st.bit)]

divfix_optimised(a, b) ==
    LET st0 == [remainder |-> IF a >= 0 THEN a ELSE Neg32(a),
                divider   |-> IF b >= 0 THEN b ELSE Neg32(b),
                quotient  |-> 0,
                bit       |-> 65536,
                hang      |-> FALSE]
        al == divfix_align(st0)
        result == divfix_loop(divfix_top_assumed(al)).quotient
    IN  IF al.hang THEN [hang |-> TRUE, v |-> 0]
        ELSE [hang |-> FALSE,
              v |-> IF (a < 0) # (b < 0) THEN Neg32(result) ELSE result]

\* the results of divfix(a, b) over the builds: one result unless a = -2^31
divfix_outcomes(a, b) == {divfix(a, b), divfix_optimised(a, b)}

\* B * D modulo 2^32 for B, D in 0 .. 2^16-1
UMul16(B, D) == Add32(Shl8(B * (D \div 256)), B * (D % 256))

\* mulfix with the low halves B, D taken as signed
mulfix_signed_low(a, b) ==
    LET A == a \div 65536
        C == b \div 65536
        B == ((a + 32768) % 65536) - 32768
        D == ((b + 32768) % 65536) - 32768
        AC == A * C
        AD_CB == Add32(A * D, C * B)
        BD == UMul16(a % 65536, b % 65536)
        ad_cb_temp == Shl16(AD_CB)
        product_lo == Add32(BD, ad_cb_temp)
        product_hi == AC + (AD_CB \div 65536)
                      + (IF ULt(product_lo, BD) THEN 1 ELSE 0)
    IN  Or32(Shl16(product_hi), Lsr16(product_lo))

\* mulfix without the carry from the lower 32 bits
mulfix_no_carry(a, b) ==
    LET A == a \div 65536
        C == b \div 65536
        B == a % 65536
        D == b % 65536
        AC == A * C
        AD_CB == Add32(A * D, C * B)
        BD == UMul16(B, D)
        ad_cb_temp == Shl16(AD_CB)
        product_lo == Add32(BD, ad_cb_temp)
        product_hi == AC + (AD_CB \div 65536)
    IN  Or32(Shl16(product_hi), Lsr16(product_lo))

mulfix(a, b) ==
    LET A == a \div 65536
        C == b \div 65536
        B == a % 65536
        D == b % 65536
        AC == A * C
        AD_CB == Add32(A * D, C * B)
        BD == UMul16(B, D)
        ad_cb_temp == Shl16(AD_CB)
        product_lo == Add32(BD, ad_cb_temp)
        product_hi == AC + (AD_CB \div 65536)
                      + (IF ULt(product_lo, BD) THEN 1 ELSE 0)
    IN  Or32(Shl16(product_hi), Lsr16(product_lo))

int_to_fix(a) == Shl16(a)

\* a >> 16 as a logical shift
fix_to_int_logical(a) == Lsr16(a)

\* the quotient rounded toward zero, which the shift does not give
fix_to_int_toward_zero(a) ==
    IF a < 0 /\ (a % 65536) # 0 THEN (a \div 65536) + 1 ELSE a \div 65536

fix_to_int(a) == a \div 65536

min(a, b, c) ==
    LET m1 == IF a < c THEN a ELSE c
    IN  IF b < m1 THEN b ELSE m1

(***************************************************************************)
(* Texts                                                                   *)
(***************************************************************************)
NUL == "NUL"

\* *c for a cursor c into the C string t (1-based; Len(t)+1 is the NUL)
Chr(t, c) == IF c >= 1 /\ c <= Len(t) THEN t[c] ELSE NUL

DigitChars == <<"0", "1", "2", "3", "4", "5", "6", "7", "8", "9">>
LowerChars == <<"a", "b", "c", "d", "e", "f", "g", "h", "i", "j", "k", "l",
                "m", "n", "o", "p", "q", "r", "s", "t", "u", "v", "w", "x",
                "y", "z">>

\* the character code of ch (ASCII)
Ord(ch) ==
    CASE ch = NUL  -> 0
      [] ch = "\n" -> 10
      [] ch = " "  -> 32
      [] ch = "+"  -> 43
      [] ch = "-"  -> 45
      [] ch = "."  -> 46
      [] \E k \in 1..10 : DigitChars[k] = ch ->
            47 + (CHOOSE k \in 1..10 : DigitChars[k] = ch)
      [] \E k \in 1..26 : LowerChars[k] = ch ->
            96 + (CHOOSE k \in 1..26 : LowerChars[k] = ch)

(***************************************************************************)
(* ascii_decimal_to_fixed_t                                                *)
(***************************************************************************)
\* the first loop, on st = [c, tmp, tmp2, dividend, overrun]:
\* while (*c!=' ' && *c!='\n' && *c!='.') { tmp *= 10; tmp += *c-48; c++; }
\* The loop does not test for the NUL: a cursor that passes it is an overrun.
RECURSIVE int_digits(_, _)
int_digits(t, st) ==
    LET ch == Chr(t, st.c)
    IN  IF ch = " " \/ ch = "\n" \/ ch = "." THEN st
        ELSE IF st.c > Len(t) THEN [st EXCEPT !.overrun = TRUE]
        ELSE int_digits(t, [st EXCEPT
                !.tmp = Add32(Mul10(st.tmp), Ord(ch) - 48),
                !.c = st.c + 1])

\* the second loop:
\* while (*c!=' ' && *c!='\n' && *c!='.' && *c!='e')
\*   { tmp2 *= 10; tmp2 += *c-48; dividend *= 10; c++; }
RECURSIVE frac_digits(_, _)
frac_digits(t, st) ==
    LET ch == Chr(t, st.c)
    IN  IF ch = " " \/ ch = "\n" \/ ch = "." \/ ch = "e" THEN st
        ELSE IF st.c > Len(t) THEN [st EXCEPT !.overrun = TRUE]
        ELSE frac_digits(t, [st EXCEPT
                !.tmp2 = Add32(Mul10(st.tmp2), Ord(ch) - 48),
                !.dividend = Mul10(st.dividend),
                !.c = st.c + 1])

\* one division by 10 where the source divides until tmp2 fits
cut_precision_once(st) ==
    IF ~ULt(65535, st.tmp2) THEN st
    ELSE [st EXCEPT !.tmp2 = UDiv(st.tmp2, 10),
                    !.dividend = UDiv(st.dividend, 10)]

\* while (tmp2>65535) { tmp2/=10; dividend/=10; }
RECURSIVE cut_precision(_)
cut_precision(st) ==
    IF ~ULt(65535, st.tmp2) THEN st
    ELSE cut_precision([st EXCEPT !.tmp2 = UDiv(st.tmp2, 10),
                                  !.dividend = UDiv(st.dividend, 10)])

\* if (*c=='.') c++;
skip_point(t, st) ==
    IF Chr(t, st.c) = "." THEN [st EXCEPT !.c = st.c + 1] ELSE st

\* if (*c=='e') { tmp = 0; tmp2 = 0; }
exponent_to_zero(t, st) ==
    IF Chr(t, st.c) = "e" THEN [st EXCEPT !.tmp = 0, !.tmp2 = 0] ELSE st

\* the quotient rounded to nearest, which the source does not compute
fracpart_rounded(tmp2, dividend) ==
    UDiv(Add32(Shl16(tmp2), UDiv(dividend, 2)), dividend)

\* fracpart = ( (tmp2<<16) / dividend ), for dividend # 0
fracpart(tmp2, dividend) == UDiv(Shl16(tmp2), dividend)

\* c++; intpart = tmp<<16; fixed = intpart | fracpart; fixed = sign * fixed;
\* return c;  The unsigned division traps when dividend is 0.
compose_fixed(neg, st) ==
    IF st.dividend = 0
      THEN [c |-> st.c + 1, fixed |-> 0, trap |-> TRUE,
            overrun |-> st.overrun]
    ELSE LET fixed == Or32(Shl16(st.tmp), fracpart(st.tmp2, st.dividend))
         IN  [c |-> st.c + 1,
              fixed |-> IF neg THEN Neg32(fixed) ELSE fixed,
              trap |-> FALSE, overrun |-> st.overrun]

\* the locals of ascii_decimal_to_fixed_t when it reaches the division:
\* the sign is skipped, both loops have run, an exponent has zeroed tmp and
\* tmp2, and the precision loop has ended
scan_numeral(t, c) ==
    cut_precision(
        exponent_to_zero(t,
            frac_digits(t,
                skip_point(t,
                    int_digits(t,
                        [c |-> IF Chr(t, c) = "-" THEN c + 1 ELSE c,
                         tmp |-> 0, tmp2 |-> 0, dividend |-> 1,
                         overrun |-> FALSE])))))

\* ascii_decimal_to_fixed_t(c, fixed) on the text t:
\* [c |-> the cursor returned, fixed |-> the value stored,
\*  trap |-> the division is by zero, overrun |-> a loop passed the NUL]
ascii_decimal_to_fixed_t(t, c) ==
    compose_fixed(Chr(t, c) = "-", scan_numeral(t, c))

(***************************************************************************)
(* Triangles                                                               *)
(***************************************************************************)
\* The capacity of the triangles array.  The source sets 10000; the model
\* keeps the array small.
MAX_TRIANGLES == 3

\* A triangle3d is [points |-> <<p0, p1, p2>>] with point3d [x, y, z]:
\* points[i] of the source is points[i+1] here.
ZeroPoint3d == [x |-> 0, y |-> 0, z |-> 0]
ZeroPoint2d == [x |-> 0, y |-> 0]
ZeroBox3d == [max |-> ZeroPoint3d, min |-> ZeroPoint3d]
NullTriangle == [points |-> <<ZeroPoint3d, ZeroPoint3d, ZeroPoint3d>>]

\* The static array triangles[MAX_TRIANGLES], zero-initialised, is slots
\* 0 .. MAX_TRIANGLES-1.  Slot MAX_TRIANGLES is the memory that follows the
\* array: the source can address it (see parse_stl), and it is zero-initialised
\* static storage too.
ZeroTriangles == [k \in 0..MAX_TRIANGLES |-> NullTriangle]

\* a test of the x coordinates alone, where the source goes on to y and z
is_null_triangle3d_x_only(t) == \A i \in 1..3 : t.points[i].x = 0

is_null_triangle3d(t) ==
    \A i \in 1..3 :
        ~(IF t.points[i].x # 0 THEN TRUE
          ELSE IF t.points[i].y # 0 THEN TRUE
          ELSE t.points[i].z # 0)

\* where the loops for (t=triangles; !is_null_triangle3d(*t); t++) stop
first_null(triangles) ==
    LET Z == {k \in DOMAIN triangles : is_null_triangle3d(triangles[k])}
    IN  IF Z = {} THEN MAX_TRIANGLES + 1
        ELSE CHOOSE k \in Z : \A j \in Z : k <= j

(***************************************************************************)
(* parse_stl                                                               *)
(***************************************************************************)
VertexMarker == <<"v", "e", "r", "t", "e", "x", " ">>

\* strncmp(s,"vertex ",7) == 0 at cursor c
at_vertex(t, c) ==
    c + 6 <= Len(t) /\ t[c] = "v" /\ SubSeq(t, c, c + 6) = VertexMarker

\* while (*s && strncmp(s,"vertex ",7)) s++;
scan_vertex(t, s) ==
    LET M == {c \in s..Len(t) : at_vertex(t, c)}
    IN  IF M = {} THEN (IF s > Len(t) THEN s ELSE Len(t) + 1)
        ELSE CHOOSE c \in M : \A d \in M : c <= d

\* one call s = ascii_decimal_to_fixed_t(s, coordinate), on
\* acc = [s, v, overrun]: the cursor, the coordinates stored so far, and
\* whether a call has read past the NUL
put_coordinate(acc, r) ==
    [s |-> r.c, v |-> Append(acc.v, r.fixed),
     overrun |-> acc.overrun \/ r.overrun]

read_coordinate(t, acc) ==
    put_coordinate(acc, ascii_decimal_to_fixed_t(t, acc.s))

\* s = ascii_decimal_to_fixed_t(s,p->x); ... (s,p->y); ... (s,p->z);
read_point(t, s) ==
    read_coordinate(t, read_coordinate(t, read_coordinate(t,
        [s |-> s, v |-> <<>>, overrun |-> FALSE])))

\* the loop for (uint8_t i=0;i<3;i++) of parse_stl, on
\* st = [s, i, tri_index, triangles, writes, overrun]
RECURSIVE read_vertices(_, _)
RECURSIVE store_point(_, _, _)
RECURSIVE at_marker(_, _, _)

read_vertices(t, st) ==
    IF st.i >= 3 THEN st ELSE at_marker(t, st, scan_vertex(t, st.s))

\* if (!*s) { break; } else { s+=7; }
at_marker(t, st, s1) ==
    IF Chr(t, s1) = NUL THEN [st EXCEPT !.s = s1]
    ELSE store_point(t, st, read_point(t, s1 + 7))

store_point(t, st, r) ==
    read_vertices(t, [st EXCEPT
        !.s = r.s,
        !.i = st.i + 1,
        !.triangles[st.tri_index].points[st.i + 1] =
            [x |-> r.v[1], y |-> r.v[2], z |-> r.v[3]],
        !.writes = @ \cup {st.tri_index},
        !.overrun = @ \/ r.overrun])

\* tri_index++ without the test for a null slot
next_index_always(triangles, tri_index) == tri_index + 1

\* if (!is_null_triangle3d(triangles[tri_index])) tri_index++;
next_index(triangles, tri_index) ==
    IF ~is_null_triangle3d(triangles[tri_index]) THEN tri_index + 1
    ELSE tri_index

\* while (*s && !(tri_index>=MAX_TRIANGLES))
RECURSIVE parse_loop(_, _)
RECURSIVE close_slot(_, _)

parse_loop(t, st) ==
    IF Chr(t, st.s) = NUL \/ st.tri_index >= MAX_TRIANGLES THEN st
    ELSE close_slot(t, read_vertices(t, [st EXCEPT !.i = 0]))

close_slot(t, f) ==
    parse_loop(t, [f EXCEPT
        !.tri_index = next_index(f.triangles, f.tri_index)])

\* set_null_triangle3d( triangles[tri_index] );
end_list(st) ==
    [triangles |-> [st.triangles EXCEPT ![st.tri_index] = NullTriangle],
     tri_index |-> st.tri_index,
     writes |-> st.writes \cup {st.tri_index},
     s |-> st.s,
     overrun |-> st.overrun]

\* parse_stl(stl_base, triangles):
\* [triangles |-> the array left, tri_index |-> the final write cursor,
\*  writes |-> the slots stored to, s |-> the final read cursor,
\*  overrun |-> a numeral was read past the NUL]
parse_stl(stl_base, triangles) ==
    end_list(parse_loop(stl_base,
        [s |-> 1, i |-> 0, tri_index |-> 0,
         triangles |-> triangles, writes |-> {}, overrun |-> FALSE]))

(***************************************************************************)
(* Boxes, translation, scaling                                             *)
(***************************************************************************)
\* extend_box3d without its three min lines
extend_box3d_max_only(box, p) ==
    [max |-> [x |-> IF p.x > box.max.x THEN p.x ELSE box.max.x,
              y |-> IF p.y > box.max.y THEN p.y ELSE box.max.y,
              z |-> IF p.z > box.max.z THEN p.z ELSE box.max.z],
     min |-> box.min]

extend_box3d(box, p) ==
    [max |-> [x |-> IF p.x > box.max.x THEN p.x ELSE box.max.x,
              y |-> IF p.y > box.max.y THEN p.y ELSE box.max.y,
              z |-> IF p.z > box.max.z THEN p.z ELSE box.max.z],
     min |-> [x |-> IF p.x < box.min.x THEN p.x ELSE box.min.x,
              y |-> IF p.y < box.min.y THEN p.y ELSE box.min.y,
              z |-> IF p.z < box.min.z THEN p.z ELSE box.min.z]]

\* the two nested loops of find_bounding_box, on st = [box, k]: the k-th
\* point visited is point k % 3 of triangle k \div 3
RECURSIVE extend_loop(_, _)
extend_loop(triangles, st) ==
    IF st.k >= 3 * first_null(triangles) THEN st
    ELSE extend_loop(triangles,
            [box |-> extend_box3d(st.box,
                        triangles[st.k \div 3].points[(st.k % 3) + 1]),
             k |-> st.k + 1])

find_bounding_box(triangles) ==
    extend_loop(triangles,
        [box |-> [max |-> triangles[0].points[1],
                  min |-> triangles[0].points[1]],
         k |-> 0]).box

find_dimensions_box3d(box) ==
    [x |-> subfix(box.max.x, box.min.x),
     y |-> subfix(box.max.y, box.min.y),
     z |-> subfix(box.max.z, box.min.z)]

find_dimensions_box2d(box) ==
    [x |-> subfix(box.max.x, box.min.x),
     y |-> subfix(box.max.y, box.min.y)]

\* addfix( m, divfix( d, int_to_fix( 2 ) ) )
mid(m, d) ==
    LET q == divfix(d, int_to_fix(2))
    IN  [hang |-> q.hang, v |-> addfix(m, q.v)]

find_center_box3d(box) ==
    LET dims == find_dimensions_box3d(box)
        cx == mid(box.min.x, dims.x)
        cy == mid(box.min.y, dims.y)
        cz == mid(box.min.z, dims.z)
    IN  [hang |-> cx.hang \/ cy.hang \/ cz.hang,
         v |-> [x |-> cx.v, y |-> cy.v, z |-> cz.v]]

find_center_box2d(box) ==
    LET dims == find_dimensions_box2d(box)
        cx == mid(box.min.x, dims.x)
        cy == mid(box.min.y, dims.y)
    IN  [hang |-> cx.hang \/ cy.hang, v |-> [x |-> cx.v, y |-> cy.v]]

mul_vector3d_fix(v, b) ==
    [x |-> mulfix(v.x, b), y |-> mulfix(v.y, b), z |-> mulfix(v.z, b)]

translate_point3d(p, translater) ==
    [x |-> addfix(p.x, translater.x),
     y |-> addfix(p.y, translater.y),
     z |-> addfix(p.z, translater.z)]

translate_point2d(p, translater) ==
    [x |-> addfix(p.x, translater.x), y |-> addfix(p.y, translater.y)]

scale_point3d(scaler, p) ==
    [x |-> mulfix(p.x, scaler.x),
     y |-> mulfix(p.y, scaler.y),
     z |-> mulfix(p.z, scaler.z)]

\* for (t=triangles;!is_null_triangle3d(*t);t++) over the three points of *t:
\* a triangle is tested before it is changed, so the loop changes the
\* triangles before the first null one of the array it is given
translate_triangles3d(triangles, translater) ==
    [k \in DOMAIN triangles |->
        IF k < first_null(triangles)
          THEN [points |-> [i \in 1..3 |->
                    translate_point3d(triangles[k].points[i], translater)]]
        ELSE triangles[k]]

scale_triangles(triangles, scaler) ==
    [k \in DOMAIN triangles |->
        IF k < first_null(triangles)
          THEN [points |-> [i \in 1..3 |->
                    scale_point3d(scaler, triangles[k].points[i])]]
        ELSE triangles[k]]

\* 0.618 in Q16.16, the constant 0x00009e35 of find_scaler
GoldenScale == 40501

find_scaler(bbox, drawbox) ==
    LET dimsbb == find_dimensions_box3d(bbox)
        dimsdb == find_dimensions_box3d(drawbox)
        sx == divfix(dimsdb.x, dimsbb.x)
        sy == divfix(dimsdb.y, dimsbb.y)
        sz == divfix(dimsdb.z, dimsbb.z)
        minscale == min(sx.v, sy.v, sz.v)
        k == mulfix(minscale, GoldenScale)
    IN  [hang |-> sx.hang \/ sy.hang \/ sz.hang,
         v |-> [x |-> k, y |-> k, z |-> k]]

make_drawbox(screen) ==
    LET dims == find_dimensions_box2d(screen)
        mindim == min(dims.x, dims.y, dims.y)
        half == divfix(mindim, int_to_fix(2))
        neghalf == mulfix(half.v, int_to_fix(-1))
    IN  [hang |-> half.hang,
         v |-> [max |-> [x |-> half.v, y |-> half.v, z |-> half.v],
                min |-> [x |-> neghalf, y |-> neghalf, z |-> neghalf]]]

(***************************************************************************)
(* Projection, culling, drawing                                            *)
(***************************************************************************)
project_point_isometric(p3d) ==
    [x |-> addfix(p3d.x, p3d.z \div 4), y |-> addfix(p3d.y, p3d.z \div 8)]

project_triangle(t3d) ==
    [points |-> [i \in 1..3 |-> project_point_isometric(t3d.points[i])]]

\* the wedge of the first two points taken as vectors from the origin,
\* where the source takes the wedge of two edges
is_front_facing_from_origin(triangle) ==
    ~(Sub32(mulfix(triangle.points[1].x, triangle.points[2].y),
            mulfix(triangle.points[2].x, triangle.points[1].y)) < 0)

is_front_facing(triangle) ==
    LET x1 == subfix(triangle.points[1].x, triangle.points[2].x)
        y1 == subfix(triangle.points[1].y, triangle.points[2].y)
        x2 == subfix(triangle.points[2].x, triangle.points[3].x)
        y2 == subfix(triangle.points[2].y, triangle.points[3].y)
        wedge == Sub32(mulfix(x1, y2), mulfix(x2, y1))
    IN  ~(wedge < 0)

\* the outline left open: the last call goes to the third point again
draw_triangle2d_open(t2d) ==
    << <<"moveto", fix_to_int(t2d.points[1].x), fix_to_int(t2d.points[1].y)>>,
       <<"lineto", fix_to_int(t2d.points[2].x), fix_to_int(t2d.points[2].y)>>,
       <<"lineto", fix_to_int(t2d.points[3].x), fix_to_int(t2d.points[3].y)>>,
       <<"lineto", fix_to_int(t2d.points[3].x), fix_to_int(t2d.points[3].y)>> >>

\* the calls draw_triangle2d makes
draw_triangle2d(t2d) ==
    << <<"moveto", fix_to_int(t2d.points[1].x), fix_to_int(t2d.points[1].y)>>,
       <<"lineto", fix_to_int(t2d.points[2].x), fix_to_int(t2d.points[2].y)>>,
       <<"lineto", fix_to_int(t2d.points[3].x), fix_to_int(t2d.points[3].y)>>,
       <<"lineto", fix_to_int(t2d.points[1].x), fix_to_int(t2d.points[1].y)>> >>

(***************************************************************************)
(* Inputs: numerals, facets, STL texts, viewports                          *)
(***************************************************************************)
\* the most facets of a generated mesh, the most loads of one run, the most
\* fractional digits of a generated numeral, and how many facets beyond the
\* capacity the over-full text holds
MaxFacets == 2
MaxLoads == 2
MaxFracDigits == 4
CapacityExcess == 5

\* the most calls of stl_draw_triangles3d that follow the one of stl_draw
MaxRedraws == 1

\* A numeral -? digits (. digits)? (e...)? is [neg, int, frac, exp]
Num(neg, int, frac, exp) ==
    [neg |-> neg, int |-> int, frac |-> frac, exp |-> exp]

NumText(n) ==
    (IF n.neg THEN <<"-">> ELSE <<>>) \o n.int
    \o (IF n.frac = <<>> THEN <<>> ELSE <<".">> \o n.frac) \o n.exp

N0 == Num(FALSE, <<"0">>, <<>>, <<>>)
N1 == Num(FALSE, <<"1">>, <<>>, <<>>)
N2 == Num(FALSE, <<"2">>, <<>>, <<>>)
N5 == Num(FALSE, <<"5">>, <<>>, <<>>)
N10 == Num(FALSE, <<"1", "0">>, <<>>, <<>>)
N500 == Num(FALSE, <<"5", "0", "0">>, <<>>, <<>>)
N500t == Num(FALSE, <<"5", "0", "0">>, <<"0", "0", "0", "2">>, <<>>)
N1000 == Num(FALSE, <<"1", "0", "0", "0">>, <<>>, <<>>)
\* 6.23e-16, -6.23e-16, 5e-3
NExpFrac == Num(FALSE, <<"6">>, <<"2", "3">>, <<"e", "-", "1", "6">>)
NExpNeg == Num(TRUE, <<"6">>, <<"2", "3">>, <<"e", "-", "1", "6">>)
NExpInt == Num(FALSE, <<"5">>, <<>>, <<"e", "-", "3">>)

\* 10000, -10000, 20000, -20000, 30000
N10000 == Num(FALSE, <<"1", "0", "0", "0", "0">>, <<>>, <<>>)
NMinus10000 == Num(TRUE, <<"1", "0", "0", "0", "0">>, <<>>, <<>>)
N20000 == Num(FALSE, <<"2", "0", "0", "0", "0">>, <<>>, <<>>)
NMinus20000 == Num(TRUE, <<"2", "0", "0", "0", "0">>, <<>>, <<>>)
N30000 == Num(FALSE, <<"3", "0", "0", "0", "0">>, <<>>, <<>>)

\* A facet is three vertices of three numerals each.
FlatFacet == << <<N0, N0, N0>>, <<N10, N0, N0>>, <<N0, N10, N0>> >>
TallFacet == << <<N0, N0, N0>>, <<N1000, N0, N0>>, <<N0, N1000, N1000>> >>
TinyFacet == << <<N500t, N500, N500>>, <<N500, N500t, N500>>,
                <<N500, N500, N500t>> >>
NullFacet == << <<N0, N0, N0>>, <<N0, N0, N0>>, <<N0, N0, N0>> >>
ExpFacet == << <<NExpFrac, N1, N2>>, <<N10, N0, N0>>, <<N0, N10, N5>> >>
\* a facet 50000 units wide in x, every coordinate within -32768 .. 32767
WideFacet == << <<NMinus20000, NMinus20000, N30000>>,
                <<N20000, NMinus20000, N10000>>,
                <<N30000, NMinus10000, N10000>> >>

FacetPool ==
    {FlatFacet, TallFacet, TinyFacet, NullFacet, ExpFacet, WideFacet}

\* the text of an ASCII STL file, as the stl_data of the source is laid out
SolidLine == <<"s", "o", "l", "i", "d", " ", "m", "\n">>
FacetOpen == <<"f", "a", "c", "e", "t", " ", "n", "o", "r", "m", "a", "l", " ",
               "0", " ", "0", " ", "1", "\n",
               "o", "u", "t", "e", "r", " ", "l", "o", "o", "p", "\n">>
FacetClose == <<"e", "n", "d", "l", "o", "o", "p", "\n",
                "e", "n", "d", "f", "a", "c", "e", "t", "\n">>
EndSolidLine == <<"e", "n", "d", "s", "o", "l", "i", "d", " ", "m", "\n">>

\* the three numerals of a vertex line, each followed by its delimiter
LineText(v) ==
    NumText(v[1]) \o <<" ">> \o NumText(v[2]) \o <<" ">> \o NumText(v[3])
    \o <<"\n">>

VertexText(v) == VertexMarker \o LineText(v)

FacetText(f) ==
    FacetOpen \o VertexText(f[1]) \o VertexText(f[2]) \o VertexText(f[3])
    \o FacetClose

RECURSIVE FacetsText(_)
FacetsText(m) ==
    IF m = <<>> THEN <<>> ELSE FacetText(Head(m)) \o FacetsText(Tail(m))

StlText(m) == SolidLine \o FacetsText(m) \o EndSolidLine

\* the meshes loaded: every one of 1 .. MaxFacets facets of the pool, and one
\* of MAX_TRIANGLES + CapacityExcess non-null facets
OverfullMesh == [k \in 1..(MAX_TRIANGLES + CapacityExcess) |-> TallFacet]

Meshes ==
    UNION {[1..n -> FacetPool] : n \in 1..MaxFacets} \cup {OverfullMesh}

\* the meshes of a later load
ReloadMeshes == {<<TallFacet>>, <<ExpFacet>>, <<NullFacet, TallFacet>>}

\* width and height of the viewport: 100 x 100, and the tester's 500 x 800
Viewports == {<<100, 100>>, <<500, 800>>}

\* the numerals and vertex lines given to ascii_decimal_to_fixed_t alone
IntParts == {<<"0">>, <<"1", "2">>, <<"2", "3">>, <<"3", "2", "7", "6", "7">>}
FracDigitChars == {"0", "2", "5", "9"}
FracParts == UNION {[1..d -> FracDigitChars] : d \in 0..MaxFracDigits}
PlainNumerals ==
    {Num(g, i, f, <<>>) : g \in BOOLEAN, i \in IntParts, f \in FracParts}
MixedNumerals == {N1, N10, NExpFrac, NExpNeg, NExpInt}

\* the characters of a sequence of digits 0 .. 9
Digits(ds) == [i \in 1..Len(ds) |-> DigitChars[ds[i] + 1]]

\* fractional parts of 5 to 9 digits, of 10 digits, where the accumulator
\* tmp2 and the scale dividend pass 2^32, and of 32 digits
LongFracParts ==
    {Digits(<<0, 0, 0, 0, 2>>), Digits(<<6, 5, 5, 3, 5>>),
     Digits(<<6, 5, 5, 3, 6>>), Digits(<<9, 9, 9, 9, 9>>),
     Digits(<<7, 0, 4, 0, 2, 0>>), Digits(<<0, 0, 0, 1, 2, 8>>),
     Digits(<<1, 2, 3, 4, 5, 6, 7>>), Digits(<<5, 0, 0, 0, 0, 0, 0, 0>>),
     Digits(<<9, 9, 9, 9, 9, 9, 9, 9, 9>>),
     Digits(<<0, 0, 0, 0, 6, 5, 5, 3, 6>>),
     Digits(<<9, 9, 9, 9, 9, 9, 9, 9, 9, 9>>),
     Digits(<<4, 2, 9, 4, 9, 6, 7, 2, 9, 6>>),
     Digits(<<1, 0, 0, 0, 0, 0, 0, 0, 0, 0, 0, 0>>),
     Digits(<<0, 0, 0, 0, 0, 0, 0, 0, 0, 0, 0, 0, 0, 0, 0, 0,
              0, 0, 0, 0, 0, 0, 0, 0, 0, 0, 0, 0, 0, 0, 0, 1>>)}
LongNumerals ==
    {Num(g, <<"1", "2">>, f, <<>>) : g \in BOOLEAN, f \in LongFracParts}

Lines ==
    {<<n, N1, N2>> : n \in PlainNumerals \cup LongNumerals}
    \cup {<<a, b, c>> : a \in MixedNumerals, b \in MixedNumerals,
                        c \in MixedNumerals}

(***************************************************************************)
(* The state                                                               *)
(***************************************************************************)
VARIABLES
    stl_data,    \* the text stl_data points to
    mesh,        \* the facets stl_data was written from
    screen,      \* the box2d of the viewport
    triangles,   \* the array triangles[] and the slot that follows it
    writes,      \* the slots the last parse_stl stored to
    bbox,        \* locals of stl_setup_triangles3d
    drawbox,
    translater,
    scaler,
    center,      \* the local translater of stl_draw_triangles3d
    t,           \* the loop variable of stl_draw_triangles3d
    out,         \* the moveto and lineto calls of the current stl_draw
    loads,       \* the number of stl_draw calls so far
    num,         \* ascii_decimal_to_fixed_t run on one vertex line
    kern,        \* one call of the fixed-point or culling functions
    cut,         \* one call of parse_stl on a text that ends inside a facet
    draws,       \* the calls of stl_draw_triangles3d made after the first
    pc           \* the place of control

vars == <<stl_data, mesh, screen, triangles, writes, bbox, drawbox,
          translater, scaler, center, t, out, loads, num, kern, cut, draws,
          pc>>

setup_locals == <<bbox, drawbox, translater, scaler>>
draw_locals == <<center, t, out>>
inputs == <<stl_data, mesh, screen, loads, num, kern, cut, draws>>

NoNum == [line |-> <<>>, k |-> 0, s |-> 1, starts |-> <<>>, p |-> <<>>]

ZeroTriangle2d == [points |-> <<ZeroPoint2d, ZeroPoint2d, ZeroPoint2d>>]

NoCut == [k |-> 0, s |-> 0, tri_index |-> 0, overrun |-> FALSE]

NoKern == [a |-> 0, b |-> 0, tri |-> ZeroTriangle2d, op |-> "none", r |-> 0]

\* Before the first stl_draw: static storage is zero, no text is loaded.  The
\* locals have no value before they are assigned and are never read before:
\* they are shown as zero.
Init ==
    /\ stl_data = <<>>
    /\ mesh = <<>>
    /\ screen = [max |-> ZeroPoint2d, min |-> ZeroPoint2d]
    /\ triangles = ZeroTriangles
    /\ writes = {}
    /\ bbox = ZeroBox3d
    /\ drawbox = ZeroBox3d
    /\ translater = ZeroPoint3d
    /\ scaler = ZeroPoint3d
    /\ center = ZeroPoint2d
    /\ t = 0
    /\ out = <<>>
    /\ loads = 0
    /\ num = NoNum
    /\ kern = NoKern
    /\ cut = NoCut
    /\ draws = 0
    /\ pc = "idle"

(***************************************************************************)
(* stl_draw: stl_setup_triangles3d, then stl_draw_triangles3d, one call    *)
(* of the source after the other                                           *)
(***************************************************************************)
\* stl_draw(width2d, height2d) is entered with stl_data pointing to a text
Enter(m, w, h) ==
    /\ stl_data' = StlText(m)
    /\ mesh' = m
    /\ screen' = [max |-> [x |-> int_to_fix(w), y |-> int_to_fix(h)],
                  min |-> [x |-> int_to_fix(0), y |-> int_to_fix(0)]]
    /\ out' = <<>>
    /\ loads' = loads + 1
    /\ pc' = "parse"
    /\ UNCHANGED <<triangles, writes, setup_locals, center, t, num, kern,
                   cut, draws>>

StlDraw ==
    /\ pc = "idle"
    /\ \E m \in Meshes, v \in Viewports : Enter(m, v[1], v[2])

\* a later frame, after stl_data was pointed to another text
StlDrawAgain ==
    /\ pc = "done"
    /\ loads < MaxLoads
    /\ \E m \in ReloadMeshes :
          Enter(m, fix_to_int(screen.max.x), fix_to_int(screen.max.y))

ParseStl ==
    /\ pc = "parse"
    /\ LET r == parse_stl(stl_data, triangles)
       IN  /\ triangles' = r.triangles
           /\ writes' = r.writes
    /\ pc' = "bbox"
    /\ UNCHANGED <<inputs, setup_locals, draw_locals>>

FindBoundingBox ==
    /\ pc = "bbox"
    /\ bbox' = find_bounding_box(triangles)
    /\ pc' = "center"
    /\ UNCHANGED <<inputs, triangles, writes, drawbox, translater, scaler,
                   draw_locals>>

\* find_center_box3d( bbox, translater );
\* mul_vector3d_fix( translater, int_to_fix(-1) );
\* mul_vector3d_fix is declared to return a fixed_t and has no return
\* statement: control flowing off its end is undefined.  After the three
\* stores the build either returns to stl_setup_triangles3d, which does not
\* use the value, or it does not return there: "fault".
FindCenter ==
    /\ pc = "center"
    /\ LET c == find_center_box3d(bbox)
       IN  IF c.hang
             THEN pc' = "hang" /\ UNCHANGED translater
           ELSE /\ translater' = mul_vector3d_fix(c.v, int_to_fix(-1))
                /\ pc' \in {"translate", "fault"}
    /\ UNCHANGED <<inputs, triangles, writes, bbox, drawbox, scaler,
                   draw_locals>>

\* translate_triangles3d( triangles, translater );
\* translate_point3d( bbox.min, translater );
\* translate_point3d( bbox.max, translater );
Translate ==
    /\ pc = "translate"
    /\ triangles' = translate_triangles3d(triangles, translater)
    /\ bbox' = [max |-> translate_point3d(bbox.max, translater),
                min |-> translate_point3d(bbox.min, translater)]
    /\ pc' = "drawbox"
    /\ UNCHANGED <<inputs, writes, drawbox, translater, scaler, draw_locals>>

MakeDrawbox ==
    /\ pc = "drawbox"
    /\ LET d == make_drawbox(screen)
       IN  IF d.hang
             THEN pc' = "hang" /\ UNCHANGED drawbox
           ELSE drawbox' = d.v /\ pc' = "scaler"
    /\ UNCHANGED <<inputs, triangles, writes, bbox, translater, scaler,
                   draw_locals>>

\* find_scaler: a divfix that never leaves its alignment loop leaves control
\* there for ever
FindScaler ==
    /\ pc = "scaler"
    /\ LET f == find_scaler(bbox, drawbox)
       IN  IF f.hang
             THEN pc' = "hang" /\ UNCHANGED scaler
           ELSE scaler' = f.v /\ pc' = "scale"
    /\ UNCHANGED <<inputs, triangles, writes, bbox, drawbox, translater,
                   draw_locals>>

ScaleTriangles ==
    /\ pc = "scale"
    /\ triangles' = scale_triangles(triangles, scaler)
    /\ pc' = "draw_begin"
    /\ UNCHANGED <<inputs, writes, setup_locals, draw_locals>>

\* stl_draw_triangles3d: find_center_box2d( screen, translater ); t=triangles
DrawBegin ==
    /\ pc = "draw_begin"
    /\ LET c == find_center_box2d(screen)
       IN  IF c.hang
             THEN pc' = "hang" /\ UNCHANGED <<center, t>>
           ELSE center' = c.v /\ t' = 0 /\ pc' = "draw"
    /\ UNCHANGED <<inputs, triangles, writes, setup_locals, out>>

\* the triangle2d drawn for the triangle3d t3d, translated to the viewport
on_screen(t2d, c) ==
    [points |-> [i \in 1..3 |-> translate_point2d(t2d.points[i], c)]]

\* if (is_front_facing( t2d )) { translate_point2d( ... ) three times;
\* draw_triangle2d( t2d ); }: the commands emitted for the projected
\* triangle t2d
cull_and_draw(t2d, c) ==
    IF is_front_facing(t2d) THEN draw_triangle2d(on_screen(t2d, c)) ELSE <<>>

\* one pass of a loop that translates the element of the list in place,
\* where the source translates the local t2d
DrawTriangleInPlace ==
    /\ pc = "draw"
    /\ IF is_null_triangle3d(triangles[t])
         THEN pc' = "done" /\ UNCHANGED <<t, out, triangles>>
       ELSE /\ out' = out \o cull_and_draw(project_triangle(triangles[t]),
                                           center)
            /\ triangles' = [triangles EXCEPT ![t] = [points |->
                    [i \in 1..3 |-> [x |-> addfix(@.points[i].x, center.x),
                                     y |-> addfix(@.points[i].y, center.y),
                                     z |-> @.points[i].z]]]]
            /\ t' = t + 1
            /\ pc' = "draw"
    /\ UNCHANGED <<inputs, writes, setup_locals, center>>

\* one pass of the loop of stl_draw_triangles3d, or its exit
DrawTriangle ==
    /\ pc = "draw"
    /\ IF is_null_triangle3d(triangles[t])
         THEN pc' = "done" /\ UNCHANGED <<t, out>>
       ELSE LET t2d == project_triangle(triangles[t])
            IN  /\ out' = IF is_front_facing(t2d)
                            THEN out \o draw_triangle2d(on_screen(t2d, center))
                          ELSE out
                /\ t' = t + 1
                /\ pc' = "draw"
    /\ UNCHANGED <<inputs, triangles, writes, setup_locals, center>>

Next ==
    \/ StlDraw
    \/ ParseStl
    \/ FindBoundingBox
    \/ FindCenter
    \/ Translate
    \/ MakeDrawbox
    \/ FindScaler
    \/ ScaleTriangles
    \/ DrawBegin
    \/ DrawTriangle

Spec == Init /\ [][Next]_vars

\* stl_draw_triangles3d( triangles, screen ) called once more on the list
\* and the viewport of the frame
DrawAgain ==
    /\ pc = "done"
    /\ draws < MaxRedraws
    /\ draws' = draws + 1
    /\ pc' = "draw_begin"
    /\ UNCHANGED <<stl_data, mesh, screen, loads, num, kern, cut, triangles,
                   writes, setup_locals, draw_locals>>

NextRedraw == Next \/ DrawAgain

SpecRedraw == Init /\ [][NextRedraw]_vars

\* several frames, stl_data pointed to another text in between
NextReload == Next \/ StlDrawAgain

SpecReload == Init /\ [][NextReload]_vars

(***************************************************************************)
(* ascii_decimal_to_fixed_t on the three numerals of one vertex line, as   *)
(* parse_stl calls it after a "vertex " marker                             *)
(***************************************************************************)
InitNum ==
    /\ \E l \in Lines :
          /\ stl_data = LineText(l)
          /\ num = [line |-> l, k |-> 0, s |-> 1, starts |-> <<>>, p |-> <<>>]
    /\ mesh = <<>>
    /\ screen = [max |-> ZeroPoint2d, min |-> ZeroPoint2d]
    /\ triangles = ZeroTriangles
    /\ writes = {}
    /\ bbox = ZeroBox3d
    /\ drawbox = ZeroBox3d
    /\ translater = ZeroPoint3d
    /\ scaler = ZeroPoint3d
    /\ center = ZeroPoint2d
    /\ t = 0
    /\ out = <<>>
    /\ loads = 0
    /\ kern = NoKern
    /\ cut = NoCut
    /\ draws = 0
    /\ pc = "num"

\* s = ascii_decimal_to_fixed_t(s,p->x), then p->y, then p->z; a division
\* by zero ends the program inside the call
parse_coordinate(r) ==
    IF r.trap THEN num
    ELSE [num EXCEPT !.k = @ + 1,
                     !.s = r.c,
                     !.starts = Append(@, num.s),
                     !.p = Append(@, r.fixed)]

ParseCoordinate ==
    /\ pc = "num"
    /\ num.k < 3
    /\ num' = parse_coordinate(ascii_decimal_to_fixed_t(stl_data, num.s))
    /\ pc' = IF ascii_decimal_to_fixed_t(stl_data, num.s).trap
               THEN "fault" ELSE pc
    /\ UNCHANGED <<stl_data, mesh, screen, triangles, writes, setup_locals,
                   draw_locals, loads, kern, cut, draws>>

NextNum == ParseCoordinate

SpecNum == InitNum /\ [][NextNum]_vars

(***************************************************************************)
(* One call of a fixed-point function on the words a and b, or of          *)
(* is_front_facing on the triangle2d tri                                   *)
(***************************************************************************)
\* the words given: small and large, of either sign, whole and fractional,
\* and the ends of the range
Words ==
    {0, 1, -1, 2, 7, 13, 15, 100, 32767, -32768, 46341, 65535, 65536, -65536,
     98304, 131072, 196608, 458752, -458752, 948000, 6553600, 65536000,
     186338172, -29607386, 2147418112, MaxInt32, -MaxInt32, MinInt32}

Point2d(x, y) == [x |-> x, y |-> y]

Triangle2d(p0, p1, p2) == [points |-> <<p0, p1, p2>>]

\* projected triangles: of positive, negative and zero area, three points in
\* one place, three on a line, and three on a line that are further apart
\* than a fixed_t can hold
Triangles2d ==
    {Triangle2d(Point2d(0, 0), Point2d(655360, 0), Point2d(0, 655360)),
     Triangle2d(Point2d(0, 0), Point2d(0, 655360), Point2d(655360, 0)),
     Triangle2d(Point2d(65536, 65536), Point2d(65536, 65536),
                Point2d(65536, 65536)),
     Triangle2d(Point2d(0, 0), Point2d(65536, 131072),
                Point2d(196608, 393216)),
     Triangle2d(Point2d(-6553600, 3276800), Point2d(0, 0),
                Point2d(13107200, -6553600)),
     Triangle2d(Point2d(7, 13), Point2d(7, 13), Point2d(-52428800, 100)),
     Triangle2d(Point2d(-1000000000, -500000000), Point2d(0, 0),
                Point2d(1000000000, 500000000)),
     Triangle2d(Point2d(2262, -1), Point2d(1850571038, 4451),
                Point2d(-1321832578, -3181)),
     Triangle2d(Point2d(-547, 190), Point2d(85860893, -1755123698),
                Point2d(-21465907, 438781162))}

kernel_rest ==
    <<stl_data, mesh, screen, triangles, writes, setup_locals, draw_locals,
      loads, num, cut, draws, pc>>

InitKernel ==
    /\ \/ \E a \in Words, b \in Words : kern = [NoKern EXCEPT !.a = a, !.b = b]
       \/ \E tri \in Triangles2d : kern = [NoKern EXCEPT !.tri = tri]
    /\ cut = NoCut
    /\ draws = 0
    /\ stl_data = <<>>
    /\ mesh = <<>>
    /\ screen = [max |-> ZeroPoint2d, min |-> ZeroPoint2d]
    /\ triangles = ZeroTriangles
    /\ writes = {}
    /\ bbox = ZeroBox3d
    /\ drawbox = ZeroBox3d
    /\ translater = ZeroPoint3d
    /\ scaler = ZeroPoint3d
    /\ center = ZeroPoint2d
    /\ t = 0
    /\ out = <<>>
    /\ loads = 0
    /\ num = NoNum
    /\ pc = "kernel"

\* the call op is made and r is what it returns
Call(op, r) ==
    /\ kern.op = "none"
    /\ kern' = [kern EXCEPT !.op = op, !.r = r]
    /\ UNCHANGED kernel_rest

\* divfix(a, b); r is [hang, v]
CallDivfix ==
    /\ pc = "kernel"
    /\ \E q \in divfix_outcomes(kern.a, kern.b) : Call("divfix", q)

CallMulfix ==
    /\ pc = "kernel"
    /\ Call("mulfix", mulfix(kern.a, kern.b))

\* mulfix(divfix(a, b), b), for b # 0
CallInverse ==
    /\ pc = "kernel"
    /\ kern.b # 0
    /\ \E q \in divfix_outcomes(kern.a, kern.b) :
          Call("inverse", mulfix(q.v, kern.b))

\* mulfix(a, int_to_fix(1))
CallIdentity ==
    /\ pc = "kernel"
    /\ Call("identity", mulfix(kern.a, int_to_fix(1)))

\* fix_to_int(int_to_fix(a)), for a an integer of 16 bits
CallRoundTrip ==
    /\ pc = "kernel"
    /\ kern.a \in -32768..32767
    /\ Call("roundtrip", fix_to_int(int_to_fix(kern.a)))

CallFrontFacing ==
    /\ pc = "kernel"
    /\ Call("is_front_facing", is_front_facing(kern.tri))

\* fix_to_int(a)
CallFixToInt ==
    /\ pc = "kernel"
    /\ Call("fix_to_int", fix_to_int(kern.a))

\* draw_triangle2d(tri); r is the sequence of the commands emitted
CallDrawTriangle ==
    /\ pc = "kernel"
    /\ Call("draw_triangle2d", draw_triangle2d(kern.tri))

\* the translations of the draw loop: none, the centres of two viewports,
\* and vectors that wrap a coordinate around
Translations2d ==
    {Point2d(0, 0), Point2d(3276800, 3276800), Point2d(16384000, 26214400),
     Point2d(-1, 1000000000), Point2d(MaxInt32, MinInt32)}

\* the body of the draw loop on the projected triangle tri and a translater
CallCullAndDraw ==
    /\ pc = "kernel"
    /\ \E c \in Translations2d :
          Call("cull_and_draw", [by |-> c, cmds |-> cull_and_draw(kern.tri, c)])

\* the triangle3d with a at coordinate axis of point i, b at the z of the
\* last point unless a is put there, and 0 elsewhere
Triangle3dWith(i, axis, a, b) ==
    [points |-> [j \in 1..3 |->
        [x |-> IF j = i /\ axis = "x" THEN a ELSE 0,
         y |-> IF j = i /\ axis = "y" THEN a ELSE 0,
         z |-> IF j = i /\ axis = "z" THEN a
               ELSE IF j = 3 THEN b ELSE 0]]]

\* is_null_triangle3d(t); r is [t, v]
CallIsNullTriangle ==
    /\ pc = "kernel"
    /\ \E i \in 1..3, axis \in {"x", "y", "z"} :
          Call("is_null_triangle3d",
               [t |-> Triangle3dWith(i, axis, kern.a, kern.b),
                v |-> is_null_triangle3d(
                          Triangle3dWith(i, axis, kern.a, kern.b))])

NextKernel ==
    \/ CallDivfix
    \/ CallMulfix
    \/ CallInverse
    \/ CallIdentity
    \/ CallRoundTrip
    \/ CallFrontFacing
    \/ CallFixToInt
    \/ CallDrawTriangle
    \/ CallCullAndDraw
    \/ CallIsNullTriangle

SpecKernel == InitKernel /\ [][NextKernel]_vars

(***************************************************************************)
(* parse_stl alone, on a text that ends inside a facet                     *)
(***************************************************************************)
\* the text of the mesh m up to the end of vertex line k of its last facet
CutText(m, k) ==
    SolidLine \o FacetsText(SubSeq(m, 1, Len(m) - 1)) \o FacetOpen
    \o VertexText(m[Len(m)][1])
    \o (IF k = 2 THEN VertexText(m[Len(m)][2]) ELSE <<>>)

CutMeshes == UNION {[1..n -> FacetPool] : n \in 1..MaxFacets}

InitCut ==
    /\ \E m \in CutMeshes, k \in 1..2 :
          /\ stl_data = CutText(m, k)
          /\ mesh = m
          /\ cut = [NoCut EXCEPT !.k = k]
    /\ draws = 0
    /\ screen = [max |-> ZeroPoint2d, min |-> ZeroPoint2d]
    /\ triangles = ZeroTriangles
    /\ writes = {}
    /\ bbox = ZeroBox3d
    /\ drawbox = ZeroBox3d
    /\ translater = ZeroPoint3d
    /\ scaler = ZeroPoint3d
    /\ center = ZeroPoint2d
    /\ t = 0
    /\ out = <<>>
    /\ loads = 0
    /\ num = NoNum
    /\ kern = NoKern
    /\ pc = "cut"

\* parse_stl( stl_data, triangles ), with its cursors kept
ParseCut ==
    /\ pc = "cut"
    /\ LET r == parse_stl(stl_data, triangles)
       IN  /\ triangles' = r.triangles
           /\ writes' = r.writes
           /\ cut' = [cut EXCEPT !.s = r.s, !.tri_index = r.tri_index,
                                 !.overrun = r.overrun]
    /\ pc' = "cut_parsed"
    /\ UNCHANGED <<stl_data, mesh, screen, setup_locals, draw_locals, loads,
                   num, kern, draws>>

NextCut == ParseCut

SpecCut == InitCut /\ [][NextCut]_vars

(***************************************************************************)
(* Properties of parse_stl                                                 *)
(***************************************************************************)
\* C1: for the text of MAX_TRIANGLES + CapacityExcess non-null facets,
\* parse_stl leaves MAX_TRIANGLES real triangles before the first all-zero
\* one, and every slot it stores to (the vertex stores and the final
\* set_null_triangle3d) is one of triangles[0 .. MAX_TRIANGLES-1].
C1_CapacityBoundary ==
    (pc = "bbox" /\ mesh = OverfullMesh) =>
        /\ first_null(triangles) = MAX_TRIANGLES
        /\ writes \subseteq 0..(MAX_TRIANGLES - 1)

\* C2: what parse_stl leaves, up to and including the sentinel, is what it
\* leaves for the same text on an all-zero array, whatever the array held
\* before (here: the transformed triangles of the load before), for texts of
\* fewer than MAX_TRIANGLES facets, none of them all zero.
all_real(m) == \A i \in DOMAIN m : m[i] # NullFacet

C2_IngestFromScratch ==
    (pc = "bbox" /\ Len(mesh) < MAX_TRIANGLES /\ all_real(mesh)) =>
        \A k \in 0..MAX_TRIANGLES :
            k <= parse_stl(stl_data, ZeroTriangles).tri_index =>
                triangles[k] = parse_stl(stl_data, ZeroTriangles).triangles[k]

(***************************************************************************)
(* Properties of the render pass                                           *)
(***************************************************************************)
\* what stl_draw was entered with
viewport_is(w, h) ==
    screen.max = [x |-> int_to_fix(w), y |-> int_to_fix(h)]

\* one moveto followed by three lineto, every coordinate in 0 .. 100
one_polyline_inside(calls) ==
    /\ Len(calls) = 4
    /\ calls[1][1] = "moveto"
    /\ \A i \in 2..4 : calls[i][1] = "lineto"
    /\ \A i \in 1..4 : calls[i][2] \in 0..100 /\ calls[i][3] \in 0..100

\* C3: for the single facet (0,0,0) (10,0,0) (0,10,0) in a 100 x 100
\* viewport the pass is never stuck inside a division, and when it is done it
\* has made either no call (the triangle faced backward) or one moveto and
\* three lineto with every coordinate in 0 .. 100.
C3_SingleFacetDrawn ==
    (mesh = <<FlatFacet>> /\ viewport_is(100, 100)) =>
        /\ pc # "hang"
        /\ pc = "done" => (out = <<>> \/ one_polyline_inside(out))

\* C4: a render pass terminates.  Every loop of the pass but one is bounded
\* by the text or by the sentinel; the one that is not is the alignment loop
\* of divfix, and the pass is at "hang" when it has entered that loop with
\* operands it never leaves it with.  So a pass terminates exactly when it
\* is never at "hang".  The text holds at least one facet that is not all
\* zero, the viewport is any of Viewports.
has_real_facet(m) == \E i \in DOMAIN m : m[i] # NullFacet

C4_RenderPassTerminates == has_real_facet(mesh) => pc # "hang"

(***************************************************************************)
(* Properties of ascii_decimal_to_fixed_t                                  *)
(***************************************************************************)
\* the number a sequence of decimal digits writes
RECURSIVE DecVal(_)
DecVal(ds) ==
    IF ds = <<>> THEN 0
    ELSE 10 * DecVal(SubSeq(ds, 1, Len(ds) - 1)) + Ord(ds[Len(ds)]) - 48

RECURSIVE Pow10(_)
Pow10(d) == IF d = 0 THEN 1 ELSE 10 * Pow10(d - 1)

\* sign * ((I << 16) | floor(F * 65536 / 10^d)) of a numeral without an
\* exponent, I < 32768 and d <= 4; the or is a sum, the fraction being
\* below 65536
PlainVal(n) ==
    LET m == DecVal(n.int) * 65536
             + (DecVal(n.frac) * 65536) \div Pow10(Len(n.frac))
    IN  IF n.neg THEN -m ELSE m

\* where the j-th numeral of a vertex line starts; j = 4 is the place after
\* the delimiter of the third
RECURSIVE NumeralStart(_, _)
NumeralStart(line, j) ==
    IF j = 1 THEN 1
    ELSE NumeralStart(line, j - 1) + Len(NumText(line[j - 1])) + 1

\* the cursor the j-th call was entered with; for j = num.k + 1 the cursor
\* the last call returned
cursor_at(j) == IF j <= num.k THEN num.starts[j] ELSE num.s

\* the j-th call has been made, and on the first character of the j-th numeral
parsed_in_place(j) ==
    j \in 1..num.k /\ num.starts[j] = NumeralStart(num.line, j)

\* C5: a numeral with an exponent marker, with or without a fractional
\* part, read from its first character, is stored as 0.
C5_ExponentGivesZero ==
    \A j \in 1..3 :
        (parsed_in_place(j) /\ num.line[j].exp # <<>>) => num.p[j] = 0

\* C6: a call entered on the first character of a numeral returns the cursor
\* on the first character after the delimiter of that numeral, exponent
\* suffix or not: the next call is entered on the next numeral.
C6_CursorPastNumeral ==
    \A j \in 1..3 :
        parsed_in_place(j) => cursor_at(j + 1) = NumeralStart(num.line, j + 1)

\* C7: a numeral -? I (. F)? without exponent, I < 32768 and F of d <= 4
\* digits, read from its first character, is stored as
\* sign * ((I << 16) | floor(F * 65536 / 10^d)).
\* In particular 23.5 is stored as 23<<16 | 0x8000.
C7_ParserExact ==
    /\ \A j \in 1..3 :
          (/\ parsed_in_place(j)
           /\ num.line[j].exp = <<>>
           /\ Len(num.line[j].frac) <= 4
           /\ DecVal(num.line[j].int) < 32768)
          => num.p[j] = PlainVal(num.line[j])
    /\ (parsed_in_place(1)
        /\ num.line[1] = Num(FALSE, <<"2", "3">>, <<"5">>, <<>>))
       => num.p[1] = 1540096

\* -12.25 has been read and stored as the negation of 12<<16 | 0x4000
C7_Witness ==
    /\ parsed_in_place(1)
    /\ num.line[1] = Num(TRUE, <<"1", "2">>, <<"2", "5">>, <<>>)
    /\ num.p[1] = -802816

(***************************************************************************)
(* Properties of the triangle list                                         *)
(***************************************************************************)
\* the value of a numeral: 0 with an exponent marker, else PlainVal
NumeralVal(n) == IF n.exp # <<>> THEN 0 ELSE PlainVal(n)

\* the triangle a facet of the text writes, vertices in text order
FacetTriangle(f) ==
    [points |-> [i \in 1..3 |-> [x |-> NumeralVal(f[i][1]),
                                 y |-> NumeralVal(f[i][2]),
                                 z |-> NumeralVal(f[i][3])]]]

\* the facets of a mesh that are not all zero, in text order
RECURSIVE RealTriangles(_)
RealTriangles(m) ==
    IF m = <<>> THEN <<>>
    ELSE (IF is_null_triangle3d(FacetTriangle(Head(m))) THEN <<>>
          ELSE <<FacetTriangle(Head(m))>>) \o RealTriangles(Tail(m))

\* C8: after parse_stl on an all-zero array and a text of fewer than
\* MAX_TRIANGLES facets, slot i holds the i-th facet that is not all zero,
\* vertices in text order (all-zero facets take no slot and do not stop the
\* ingestion), and the slot after the last is all zero.
C8_IngestContentOrder ==
    (pc = "bbox" /\ loads = 1 /\ Len(mesh) < MAX_TRIANGLES) =>
        /\ \A i \in 1..Len(RealTriangles(mesh)) :
              triangles[i - 1] = RealTriangles(mesh)[i]
        /\ triangles[Len(RealTriangles(mesh))] = NullTriangle

\* C9: translating by the negated centre and scaling leave as many
\* triangles before the first all-zero one as parse_stl ingested.
C9_SentinelNeverReal ==
    (loads = 1 /\ pc \in {"drawbox", "scaler", "scale", "draw_begin", "draw",
                          "done"}) =>
        first_null(triangles) = parse_stl(stl_data, ZeroTriangles).tri_index

(***************************************************************************)
(* The exact sign of the wedge, computed without overflow: differences and *)
(* products are kept as a sign and a magnitude in limbs of 15 bits         *)
(***************************************************************************)
\* hi * 2^16 + lo, 0 <= hi, lo < 2^16, as limbs <<x0, x1, x2>>, x0 the lowest
limbs_of(hi, lo) ==
    <<lo % 32768, ((hi % 16384) * 2) + (lo \div 32768), hi \div 16384>>

\* p - q for p >= q, the low halves subtracted with borrow
magnitude(p, q) ==
    IF (p % 65536) < (q % 65536)
      THEN limbs_of((p \div 65536) - (q \div 65536) - 1,
                    (p % 65536) - (q % 65536) + 65536)
    ELSE limbs_of((p \div 65536) - (q \div 65536),
                  (p % 65536) - (q % 65536))

\* a - b of two 32 bit words, exactly
ExactDiff(a, b) ==
    IF a = b THEN [sgn |-> 0, mag |-> <<0, 0, 0>>]
    ELSE IF a < b THEN [sgn |-> -1, mag |-> magnitude(b, a)]
    ELSE [sgn |-> 1, mag |-> magnitude(a, b)]

\* the columns of the schoolbook product, each taking the carry of the one
\* below it; the result has the highest limb first
column4(x, y, c3, low) == <<(x[3] * y[3]) + (c3 \div 32768), c3 % 32768>> \o low

column3(x, y, c2, low) ==
    column4(x, y, (x[2] * y[3]) + (x[3] * y[2]) + (c2 \div 32768),
            <<c2 % 32768>> \o low)

column2(x, y, c1, low) ==
    column3(x, y, (x[1] * y[3]) + (x[2] * y[2]) + (x[3] * y[1]) + (c1 \div 32768),
            <<c1 % 32768>> \o low)

column1(x, y, c0) ==
    column2(x, y, (x[1] * y[2]) + (x[2] * y[1]) + (c0 \div 32768),
            <<c0 % 32768>>)

ExactProduct(u, v) ==
    [sgn |-> u.sgn * v.sgn, mag |-> column1(u.mag, v.mag, u.mag[1] * v.mag[1])]

mag_less(m, n) ==
    \E i \in 1..5 : m[i] < n[i] /\ \A j \in 1..(i - 1) : m[j] = n[j]

\* P >= Q
ExactGeq(P, Q) ==
    IF P.sgn # Q.sgn THEN P.sgn > Q.sgn
    ELSE IF P.sgn = 0 THEN TRUE
    ELSE IF P.sgn = 1 THEN ~mag_less(P.mag, Q.mag)
    ELSE ~mag_less(Q.mag, P.mag)

\* (p0.x-p1.x)*(p1.y-p2.y) - (p1.x-p2.x)*(p0.y-p1.y) >= 0, exactly
ExactWedgeNonNeg(triangle) ==
    ExactGeq(
        ExactProduct(
            ExactDiff(triangle.points[1].x, triangle.points[2].x),
            ExactDiff(triangle.points[2].y, triangle.points[3].y)),
        ExactProduct(
            ExactDiff(triangle.points[2].x, triangle.points[3].x),
            ExactDiff(triangle.points[1].y, triangle.points[2].y)))

\* C10: every triangle stl_draw_triangles3d projects is taken as front
\* facing exactly when the exact wedge of its projection is not negative.
C10_CullingExact ==
    (pc = "draw" /\ ~is_null_triangle3d(triangles[t])) =>
        (is_front_facing(project_triangle(triangles[t]))
         <=> ExactWedgeNonNeg(project_triangle(triangles[t])))

(***************************************************************************)
(* Properties of stl_draw_triangles3d                                      *)
(***************************************************************************)
\* the points of triangle k as they are drawn: projected, then moved to the
\* centre of the viewport
drawn_points(k) == on_screen(project_triangle(triangles[k]), center).points

\* moveto(p0), lineto(p1), lineto(p2), lineto(p0) for triangle k
polyline(q) ==
    << <<"moveto", q[1].x \div 65536, q[1].y \div 65536>>,
       <<"lineto", q[2].x \div 65536, q[2].y \div 65536>>,
       <<"lineto", q[3].x \div 65536, q[3].y \div 65536>>,
       <<"lineto", q[1].x \div 65536, q[1].y \div 65536>> >>

\* the calls for the triangles 0 .. k-1 in list order: a polyline for each
\* front-facing one, nothing for the others
RECURSIVE calls_upto(_)
calls_upto(k) ==
    IF k = 0 THEN <<>>
    ELSE calls_upto(k - 1)
         \o (IF is_front_facing(project_triangle(triangles[k - 1]))
               THEN polyline(drawn_points(k - 1))
             ELSE <<>>)

\* C11: while stl_draw_triangles3d runs and when it is done, the calls made
\* are those for the triangles visited so far, taken in list order: for each
\* front-facing one moveto(p0), lineto(p1), lineto(p2), lineto(p0), for a
\* back-facing one nothing; no triangle at or after the sentinel is visited,
\* and at the end every triangle before the sentinel has been.
C11_EmissionProtocol ==
    (pc \in {"draw", "done"}) =>
        /\ t <= first_null(triangles)
        /\ pc = "done" => t = first_null(triangles)
        /\ out = calls_upto(t)
        /\ Len(out) % 4 = 0
        /\ \A g \in 0..((Len(out) \div 4) - 1) :
              /\ out[4 * g + 1][1] = "moveto"
              /\ \A i \in 2..4 : out[4 * g + i][1] = "lineto"
              /\ out[4 * g + 4][2] = out[4 * g + 1][2]
              /\ out[4 * g + 4][3] = out[4 * g + 1][3]

\* a pass is done that drew one of two triangles and skipped the other
C11_Witness == pc = "done" /\ t = 2 /\ Len(out) = 4

(***************************************************************************)
(* The drawing and the viewport                                            *)
(***************************************************************************)
\* the bounding box of the mesh has a non-zero extent on each axis
\* (translate_point3d moves both corners by the same vector)
mesh_has_extent ==
    /\ bbox.min.x # bbox.max.x
    /\ bbox.min.y # bbox.max.y
    /\ bbox.min.z # bbox.max.z

inside_viewport(call) ==
    /\ 0 <= call[2] /\ call[2] <= fix_to_int(screen.max.x)
    /\ 0 <= call[3] /\ call[3] <= fix_to_int(screen.max.y)

\* C12: for a mesh whose bounding box has non-zero extent on all three axes
\* and a viewport (0,0)-(w,h), every coordinate pair given to moveto or lineto
\* by stl_draw_triangles3d after stl_setup_triangles3d has 0 <= x <= w and
\* 0 <= y <= h.
C12_ViewportContainment ==
    (pc \in {"draw", "done"} /\ mesh_has_extent) =>
        \A i \in 1..Len(out) : inside_viewport(out[i])

(***************************************************************************)
(* Algebraic properties of the kernel                                      *)
(***************************************************************************)
\* |x| \div d for a 32-bit x and d a power of two, |-2^31| included
abs_div(x, d) ==
    IF x = MinInt32 THEN (MaxInt32 \div d) + 1
    ELSE (IF x < 0 THEN -x ELSE x) \div d

\* |x - y| <= k for 32-bit x, y and a small k >= 0, without leaving 32 bits
raw_distance_le(x, y, k) ==
    LET hi == IF x < y THEN y ELSE x
        lo == IF x < y THEN x ELSE y
    IN  IF lo < 0 /\ hi >= 0 THEN hi <= k + lo ELSE hi - lo <= k

\* the quotient |a| * 65536 / |b| is below 2^31
quotient_fits(a, b) ==
    b = MinInt32 \/ abs_div(a, 32768) < (IF b < 0 THEN -b ELSE b)

\* C13 as stated: for all a and b # 0, mulfix(divfix(a,b), b) differs from a
\* by at most 1 raw unit.
C13_InverseWithinOneUnit ==
    (kern.op = "inverse") => raw_distance_le(kern.r, kern.a, 1)

\* C13 amended: for b # 0 and a quotient that fits Q16.16,
\* mulfix(divfix(a,b), b) differs from a by at most floor(|b| / 65536) + 1
\* raw units; by at most 1 raw unit when |b| <= 1.0.
C13_InverseBound ==
    (kern.op = "inverse" /\ quotient_fits(kern.a, kern.b)) =>
        /\ raw_distance_le(kern.r, kern.a, abs_div(kern.b, 65536) + 1)
        /\ (-65536 <= kern.b /\ kern.b <= 65536) =>
               raw_distance_le(kern.r, kern.a, 1)

\* 1.0 / 7.0 * 7.0 is two raw units below 1.0
C13_Witness ==
    /\ kern.op = "inverse"
    /\ kern.a = 65536 /\ kern.b = 458752
    /\ kern.r = 65534

(***************************************************************************)
(* The bounding box                                                        *)
(***************************************************************************)
\* the vertices of the triangles before the sentinel
list_vertices ==
    {triangles[k].points[i] : k \in 0..(first_null(triangles) - 1), i \in 1..3}

\* C14: for a list with at least one real triangle, after find_bounding_box
\* every vertex of every triangle before the sentinel lies within
\* [bbox.min, bbox.max] on each axis, each of the six bounds is the coordinate
\* of some such vertex, and bbox.min <= bbox.max on each axis.
C14_BoundingBox ==
    (pc = "center" /\ first_null(triangles) >= 1) =>
        /\ \A p \in list_vertices :
              /\ bbox.min.x <= p.x /\ p.x <= bbox.max.x
              /\ bbox.min.y <= p.y /\ p.y <= bbox.max.y
              /\ bbox.min.z <= p.z /\ p.z <= bbox.max.z
        /\ \E p \in list_vertices : p.x = bbox.min.x
        /\ \E p \in list_vertices : p.y = bbox.min.y
        /\ \E p \in list_vertices : p.z = bbox.min.z
        /\ \E p \in list_vertices : p.x = bbox.max.x
        /\ \E p \in list_vertices : p.y = bbox.max.y
        /\ \E p \in list_vertices : p.z = bbox.max.z
        /\ bbox.min.x <= bbox.max.x
        /\ bbox.min.y <= bbox.max.y
        /\ bbox.min.z <= bbox.max.z

\* two real triangles, a bound below and one above the first vertex read, and
\* a negative bound
C14_Witness ==
    /\ pc = "center"
    /\ first_null(triangles) = 2
    /\ bbox.min.y < triangles[0].points[1].y
    /\ bbox.max.x > triangles[0].points[1].x
    /\ bbox.min.x < 0

\* C15: for every 32-bit a and every b # 0, quotients too large for Q16.16
\* included, divfix terminates and returns a value.
C15_DivfixTotal ==
    (kern.op = "divfix" /\ kern.b # 0) =>
        /\ ~kern.r.hang
        /\ MinInt32 <= kern.r.v /\ kern.r.v <= MaxInt32

\* 14.47 / 0.00023 does not fit Q16.16: divfix returns, with 0
C15_Witness ==
    /\ kern.op = "divfix"
    /\ kern.a = 948000 /\ kern.b = 15
    /\ ~quotient_fits(kern.a, kern.b)
    /\ kern.r = [hang |-> FALSE, v |-> 0]

\* C16: mulfix(x, int_to_fix(1)) = x for every 32-bit x, negative x included.
C16_MultiplicativeIdentity ==
    (kern.op = "identity") => kern.r = kern.a

\* a negative x with a low half above 0x7fff
C16_Witness ==
    /\ kern.op = "identity"
    /\ kern.a < 0
    /\ kern.a % 65536 >= 32768
    /\ kern.r = kern.a

\* C17: fix_to_int(int_to_fix(n)) = n for every integer n in -32768 .. 32767.
C17_IntegerRoundTrip ==
    (kern.op = "roundtrip") => kern.r = kern.a

C17_Witness ==
    /\ kern.op = "roundtrip"
    /\ kern.a = -32768
    /\ kern.r = -32768

(***************************************************************************)
(* mulfix against a multiply with a wide intermediate                      *)
(***************************************************************************)
\* floor(M / 65536) of a product magnitude M = <<m4, m3, m2, m1, m0>> in limbs
\* of 15 bits, for M / 65536 < 2^31
shifted(m) == (m[2] * 536870912) + (m[3] * 16384) + (m[4] \div 2)

\* M is not a multiple of 65536
has_fraction(m) == (m[4] % 2 = 1) \/ m[5] # 0

\* floor(a * b / 65536) computed exactly: [fits |-> it is in -2^31 .. 2^31-1,
\* v |-> its value]
wide_multiply(a, b) ==
    LET P == ExactProduct(ExactDiff(a, 0), ExactDiff(b, 0))
        small == P.mag[1] = 0 /\ P.mag[2] <= 3
    IN  IF P.sgn >= 0
          THEN [fits |-> small, v |-> IF small THEN shifted(P.mag) ELSE 0]
        ELSE IF small
          THEN [fits |-> TRUE,
                v |-> IF has_fraction(P.mag)
                        THEN (-shifted(P.mag)) - 1
                      ELSE -shifted(P.mag)]
        ELSE IF P.mag = <<0, 4, 0, 0, 0>> \/ P.mag = <<0, 4, 0, 1, 0>>
          THEN [fits |-> ~has_fraction(P.mag), v |-> MinInt32]
        ELSE [fits |-> FALSE, v |-> 0]

\* C20: for all a, b whose exact product a*b/65536 fits the signed 32-bit
\* range, mulfix(a,b) = floor(a*b / 65536) as computed with a wide
\* intermediate, for every combination of signs.
C20_MulfixIsWideMultiply ==
    (kern.op = "mulfix" /\ wide_multiply(kern.a, kern.b).fits) =>
        kern.r = wide_multiply(kern.a, kern.b).v

\* a negative by a positive operand, the product with a fraction that floor
\* rounds downwards
C20_Witness ==
    /\ kern.op = "mulfix"
    /\ kern.a = -29607386 /\ kern.b = 46341
    /\ wide_multiply(kern.a, kern.b).fits
    /\ kern.r = -20935606

(***************************************************************************)
(* Culling of triangles without area                                       *)
(***************************************************************************)
\* (p0.x-p1.x)*(p1.y-p2.y) = (p1.x-p2.x)*(p0.y-p1.y), exactly: the three
\* points are on one line or in one place
exact_wedge_is_zero(triangle) ==
    LET P == ExactProduct(
                 ExactDiff(triangle.points[1].x, triangle.points[2].x),
                 ExactDiff(triangle.points[2].y, triangle.points[3].y))
        Q == ExactProduct(
                 ExactDiff(triangle.points[2].x, triangle.points[3].x),
                 ExactDiff(triangle.points[1].y, triangle.points[2].y))
    IN  P.sgn = Q.sgn /\ (P.sgn = 0 \/ P.mag = Q.mag)

\* C18: a projected triangle of zero area (three collinear or coincident
\* points, exact wedge 0) is always reported front-facing by is_front_facing.
C18_ZeroAreaFrontFacing ==
    (kern.op = "is_front_facing" /\ exact_wedge_is_zero(kern.tri)) =>
        kern.r = TRUE

(***************************************************************************)
(* A text that ends inside a facet                                         *)
(***************************************************************************)
\* the slot a facet leaves in a zeroed array when only its first k vertex
\* lines are in the text
PartialTriangle(f, k) ==
    [points |-> [i \in 1..3 |-> IF i <= k THEN FacetTriangle(f).points[i]
                                ELSE ZeroPoint3d]]

\* the slots counted for the mesh m cut after vertex line k of its last facet
counted_slots(m, k) ==
    Len(RealTriangles(SubSeq(m, 1, Len(m) - 1)))
    + (IF is_null_triangle3d(PartialTriangle(m[Len(m)], k)) THEN 0 ELSE 1)

exact_abs(x) ==
    [sgn |-> IF x = 0 THEN 0 ELSE 1, mag |-> ExactDiff(x, 0).mag]

\* q = floor(|a| * 65536 / |b|) for q >= 0:  q * |b| <= |a| * 65536 and
\* (q + 1) * |b| > |a| * 65536
is_floor_quotient(q, a, b) ==
    /\ q >= 0
    /\ ExactGeq(ExactProduct(exact_abs(a), exact_abs(65536)),
                ExactProduct(exact_abs(q), exact_abs(b)))
    /\ ~ExactGeq(ExactProduct(exact_abs(a), exact_abs(65536)),
                 ExactProduct(ExactDiff(q, -1), exact_abs(b)))

\* C21: for all a and b # 0 with floor(|a|*65536/|b|) < 2^31, divfix(a,b) has
\* the magnitude floor(|a|*65536/|b|) and is negated exactly when a and b have
\* opposite signs.
C21_TruncatedQuotient ==
    (kern.op = "divfix" /\ kern.b # 0 /\ quotient_fits(kern.a, kern.b)) =>
        is_floor_quotient(
            IF (kern.a < 0) # (kern.b < 0) THEN Neg32(kern.r.v) ELSE kern.r.v,
            kern.a, kern.b)

\* C22: for every a and every b # 0, a non-zero result of divfix(a,b) is
\* negative exactly when one of a, b is negative and the other is not; two
\* positive operands never give a negative result.
C22_QuotientSign ==
    (kern.op = "divfix" /\ kern.b # 0 /\ kern.r.v # 0) =>
        ((kern.r.v < 0) <=> ((kern.a < 0) # (kern.b < 0)))

(***************************************************************************)
(* The mesh scaled to the draw box                                         *)
(***************************************************************************)
\* 0.618 * half + 1 in raw units, for half = min(width, height) / 2:
\* 0.618 * 32768 = 20250.624 raw units for each unit of min(width, height)
scale_bound ==
    LET w == fix_to_int(screen.max.x)
        h == fix_to_int(screen.max.y)
        m == IF w < h THEN w ELSE h
    IN  (m * 20250) + ((m * 624) \div 1000) + 1

within_scale_bound(p) ==
    /\ -scale_bound <= p.x /\ p.x <= scale_bound
    /\ -scale_bound <= p.y /\ p.y <= scale_bound
    /\ -scale_bound <= p.z /\ p.z <= scale_bound

\* C23: for a mesh with non-zero extent on every axis, find_scaler returns
\* scaler.x = scaler.y = scaler.z > 0, and after scale_triangles every vertex
\* coordinate c has |c| <= 0.618 * half + 1 raw unit, half = min(width,
\* height) / 2 being the half-extent of the draw box.
C23_ScaleFit ==
    (pc = "draw_begin" /\ mesh_has_extent) =>
        /\ scaler.x = scaler.y /\ scaler.y = scaler.z
        /\ scaler.x > 0
        /\ \A p \in list_vertices : within_scale_bound(p)

\* the longest prefix of the fractional digits f whose value is <= 65535
frac_cut(f) ==
    SubSeq(f, 1,
        CHOOSE k \in 0..Len(f) :
            /\ DecVal(SubSeq(f, 1, k)) <= 65535
            /\ (k = Len(f) \/ DecVal(SubSeq(f, 1, k + 1)) > 65535))

\* what the parser stores for the numeral n alone, followed by a space
parsed_alone(n) == ascii_decimal_to_fixed_t(NumText(n) \o <<" ">>, 1).fixed

\* C24: a numeral with 5 to 9 fractional digits is stored as the numeral
\* cut to the longest prefix of its fractional digits whose value is
\* <= 65535 is stored; 12.704020 is stored as 12.7040 is, 832569.
C24_PrecisionTruncation ==
    /\ \A j \in 1..3 :
          (/\ parsed_in_place(j)
           /\ num.line[j].exp = <<>>
           /\ Len(num.line[j].frac) \in 5..9)
          => num.p[j] = parsed_alone([num.line[j] EXCEPT
                            !.frac = frac_cut(num.line[j].frac)])
    /\ (parsed_in_place(1)
        /\ num.line[1] = Num(FALSE, <<"1", "2">>,
                             Digits(<<7, 0, 4, 0, 2, 0>>), <<>>))
       => /\ num.p[1] = 832569
          /\ num.p[1] = parsed_alone(Num(FALSE, <<"1", "2">>,
                                         Digits(<<7, 0, 4, 0>>), <<>>))

C24_Witness ==
    /\ parsed_in_place(1)
    /\ num.line[1] = Num(TRUE, <<"1", "2">>,
                         Digits(<<7, 0, 4, 0, 2, 0>>), <<>>)
    /\ num.p[1] = -832569

\* the quotient (tmp2 << 16) / dividend of the j-th call
fraction_at_division(j) ==
    fracpart(scan_numeral(stl_data, num.starts[j]).tmp2,
             scan_numeral(stl_data, num.starts[j]).dividend)

\* C30: for a numeral without exponent, whatever the number of its
\* fractional digits, the division is never by 0 and its quotient
\* (tmp2 << 16) / dividend is below 65536.
C30_FractionBelowOne ==
    /\ pc # "fault"
    /\ \A j \in 1..3 :
          (parsed_in_place(j) /\ num.line[j].exp = <<>>)
          => ULt(fraction_at_division(j), 65536)

\* lo + floor((hi - lo) / 2), for lo <= hi
true_centre(lo, hi) ==
    lo + (((hi \div 2) - (lo \div 2)) + (IF (hi % 2) < (lo % 2) THEN -1 ELSE 0))

\* lo + hi is 0 or 1
sum_is_0_or_1(lo, hi) ==
    /\ lo # MinInt32
    /\ (hi = -lo \/ (lo > -MaxInt32 /\ hi = 1 - lo))

\* after is before - c, exactly
moved_by_minus(before, after, c) == ExactDiff(before, c) = ExactDiff(after, 0)

\* the translation of the setup from the box lo .. hi of one axis, where
\* before and after list the coordinates of the vertices on that axis
centred_axis(lo, hi, lo2, hi2, before, after) ==
    /\ sum_is_0_or_1(lo2, hi2)
    /\ lo <= hi
    /\ \A k \in DOMAIN before :
          moved_by_minus(before[k], after[k], true_centre(lo, hi))

\* the coordinates of the vertices of the list tris on one axis
axis_x(tris) ==
    [k \in {<<i, j>> : i \in 1..(first_null(triangles) - 1), j \in 1..3}
        |-> tris[k[1]].points[k[2]].x]
axis_y(tris) ==
    [k \in {<<i, j>> : i \in 1..(first_null(triangles) - 1), j \in 1..3}
        |-> tris[k[1]].points[k[2]].y]
axis_z(tris) ==
    [k \in {<<i, j>> : i \in 1..(first_null(triangles) - 1), j \in 1..3}
        |-> tris[k[1]].points[k[2]].z]

translation_centres ==
    /\ centred_axis(bbox.min.x, bbox.max.x, bbox'.min.x, bbox'.max.x,
                    axis_x(triangles), axis_x(triangles'))
    /\ centred_axis(bbox.min.y, bbox.max.y, bbox'.min.y, bbox'.max.y,
                    axis_y(triangles), axis_y(triangles'))
    /\ centred_axis(bbox.min.z, bbox.max.z, bbox'.min.z, bbox'.max.z,
                    axis_z(triangles), axis_z(triangles'))

\* C25: the translation of the setup leaves the bounding box centred at the
\* origin within one raw unit, bbox.min + bbox.max being 0 or 1 on each
\* axis, and moves every vertex by exactly -(min + floor((max - min) / 2)).
C25_Centering ==
    [][(pc = "translate" /\ pc' = "drawbox") => translation_centres]_vars

\* r is floor(x / 65536): r * 65536 <= x < (r + 1) * 65536
is_floor(r, x) ==
    /\ r \in -32768..32767
    /\ r * 65536 <= x
    /\ (r = 32767 \/ x < (r + 1) * 65536)

\* the command cmd carries the floors of the coordinates of the point p
floor_of_point(cmd, p) == is_floor(cmd[2], p.x) /\ is_floor(cmd[3], p.y)

\* C26: fix_to_int(x) is floor(x / 65536) for every fixed value x, the
\* negative ones included, and the coordinates draw_triangle2d emits for a
\* point are the floors of its fixed point coordinates, not the values
\* rounded toward zero.
C26_FixToIntFloors ==
    /\ (kern.op = "fix_to_int") => is_floor(kern.r, kern.a)
    /\ (kern.op = "draw_triangle2d") =>
          /\ Len(kern.r) = 4
          /\ \A i \in 1..4 :
                floor_of_point(kern.r[i], kern.tri.points[((i - 1) % 3) + 1])

C26_Witness ==
    /\ kern.op = "draw_triangle2d"
    /\ kern.tri.points[1] = Point2d(2262, -1)
    /\ kern.r[1] = <<"moveto", 0, -1>>

\* the commands of the order project, translate, cull
translate_and_cull(t2d, c) ==
    IF is_front_facing(on_screen(t2d, c))
      THEN draw_triangle2d(on_screen(t2d, c))
    ELSE <<>>

\* C27: is_front_facing gives the same answer on a projected triangle and on
\* the triangle with its three points translated by any vector, under 32 bit
\* wraparound, so culling before the translation emits the commands that
\* culling after it would.
C27_CullCommutesWithTranslation ==
    (kern.op = "cull_and_draw") =>
        /\ is_front_facing(on_screen(kern.tri, kern.r.by))
              = is_front_facing(kern.tri)
        /\ kern.r.cmds = translate_and_cull(kern.tri, kern.r.by)

C27_Witness ==
    /\ kern.op = "cull_and_draw"
    /\ kern.tri = Triangle2d(Point2d(-1000000000, -500000000), Point2d(0, 0),
                             Point2d(1000000000, 500000000))
    /\ kern.r.by = Point2d(MaxInt32, MinInt32)
    /\ on_screen(kern.tri, kern.r.by).points[3].x < 0
    /\ kern.r.cmds # <<>>

\* out is the commands of one call, repeated for every call made
same_commands_each_call ==
    /\ Len(out) % (draws + 1) = 0
    /\ \A i \in 1..Len(out) :
          out[i] = out[((i - 1) % (Len(out) \div (draws + 1))) + 1]

\* C28: a call of stl_draw_triangles3d leaves the triangle list and the
\* screen box as they were, and consecutive calls on the same list and
\* viewport emit the same commands.
C28_DrawingKeepsMesh ==
    /\ [][(pc \in {"draw_begin", "draw"}) =>
            (triangles' = triangles /\ screen' = screen)]_vars
    /\ [](pc = "done" => same_commands_each_call)

C28_Witness ==
    /\ pc = "done"
    /\ draws = 1
    /\ t = 2
    /\ Len(out) = 16

\* the nine coordinates of the triangle3d t3d are zero
nine_zeros(t3d) ==
    \A i \in 1..3 :
        t3d.points[i].x = 0 /\ t3d.points[i].y = 0 /\ t3d.points[i].z = 0

\* C29: is_null_triangle3d returns true exactly when the nine coordinates of
\* the triangle are zero; one non-zero x, y or z of any point makes it
\* return false.
C29_NullTriangleTest ==
    (kern.op = "is_null_triangle3d") => (kern.r.v <=> nine_zeros(kern.r.t))

C29_Witness ==
    /\ kern.op = "is_null_triangle3d"
    /\ kern.r.t = [NullTriangle EXCEPT !.points[2].y = MinInt32]
    /\ ~kern.r.v

====
